---- MODULE Spec2Model ----
(***************************************************************************)
(* A model of kerykeion/charts/kerykeion_chart_svg.py: the construction of *)
(* a KerykeionChartSVG and the geometry computed while its template        *)
(* dictionary is built (zodiac ring, house ring, aspect lines, glyph       *)
(* deconfliction, aspect patterns).                                        *)
(*                                                                         *)
(* Angles are integers counted in hundredths of a degree (3.4 degrees is   *)
(* 340, a full circle is 36000).  Every longitude drawn in Init is an even *)
(* number of hundredths, so the halvings of the code are exact.  The       *)
(* proportional split of a group of three or more (a float division in the *)
(* code) is rounded down to a hundredth.                                   *)
(***************************************************************************)
EXTENDS Integers, Sequences, FiniteSets, TLC

VARIABLES
    chart_type_arg,      \* the chart_type argument of __init__, or Omitted
    chart_type,          \* self.chart_type
    second_obj,          \* TRUE iff a second subject was passed to __init__
    houses_degree_ut,    \* self.user.houses_degree_ut, cusps 0..11
    t_houses_degree_ut,  \* self.t_user.houses_degree_ut
    points_deg_ut,       \* self.points_deg_ut, one longitude per active point
    t_points_deg_ut,     \* self.t_points_deg_ut
    aspects_settings,    \* self.aspects_settings: aspect id -> degree, orb
    lunar_deg,           \* self.user.lunar_phase["degrees_between_s_m"]
    pc,                  \* position of the build
    pass,                \* which call of _createTemplateDictionary is running
    err,                 \* the exception that ended the build, or "none"
    template,            \* TRUE once self.template holds a generated template
    scale,               \* <<c0, c1, c2, c3>> in hundredths
    adjacency,           \* the per-class maps of _makePatterns
    patterns,            \* the yot / tsquare / stellium dictionaries (their keys)
    makeAspects,         \* the aspect lines: the two offsets of each
    makeZodiac,          \* the zodiac wedges of _makeZodiac
    makeHouses,          \* the house lines of _makeHouses
    natal,               \* keys / groups / planets_delta of _make_planets
    transit,             \* groups / group_offset of the transit ring
    makePlanets,         \* the glyph offsets computed by _make_planets
    lunar_bracket,       \* the branch of the lunar-phase chain taken, 0 for none
    makePatterns,        \* td["makePatterns"], a string as a sequence of pieces
    elements,            \* self.fire, self.earth, self.air, self.water
    call,                \* a call of a helper function: its name and arguments
    ret                  \* what the call returned or raised, NoReturn before

vars == <<chart_type_arg, call, ret, makePatterns, elements, chart_type, second_obj, houses_degree_ut, t_houses_degree_ut,
          points_deg_ut, t_points_deg_ut, aspects_settings, lunar_deg,
          pc, pass, err, template, scale, adjacency, patterns, makeAspects,
          makeZodiac, makeHouses, natal, transit, makePlanets, lunar_bracket>>

inputs == <<chart_type_arg, call, chart_type, second_obj, houses_degree_ut, t_houses_degree_ut,
            points_deg_ut, t_points_deg_ut, aspects_settings, lunar_deg>>

-----------------------------------------------------------------------------
(* Bounds and program constants *)

\* number of active celestial points of the chart
NPoints == 6

\* number of points a placement moves over its longitudes; the others stand still
NPlaced == 5

\* 360 degrees
FullCircle == 36000

\* the width of one zodiac slice: sliceToX's (pi / 6) * slice
SliceWidth == 3000

\* planet_drange = 3.4
planet_drange == 340

\* the transit ring's closeness threshold, 2.5
t_drange == 250

ChartTypes == {"Natal", "ExternalNatal", "Transit", "Synastry"}

IsTransitFamily(ct) == ct = "Transit" \/ ct = "Synastry"

\* names of the active points, in settings order (index 0 first)
PointNames ==
    <<"Sun", "Moon", "Mercury", "Venus", "True_Node", "Mars", "Jupiter", "Saturn">>

PointIds == 0 .. (NPoints - 1)

Name(i) == PointNames[i + 1]

\* self.zodiac has twelve entries
ZodiacLen == 12

-----------------------------------------------------------------------------
(* Arithmetic helpers *)

\* Python's int(): truncation toward zero, of hundredths to whole degrees
Trunc(x) == IF x >= 0 THEN x \div 100 ELSE -((-x) \div 100)

\* an angle reduced to [0, 360)
Norm(x) == x % FullCircle

Max(S) == CHOOSE x \in S : \A y \in S : y <= x

degreeDiffNoWrap(a, b) == IF a > b THEN a - b ELSE b - a

\* charts_utils.degreeDiff: the shortest unsigned distance of two longitudes
degreeDiff(a, b) ==
    LET out == IF a > b THEN a - b ELSE b - a
    IN  IF out > 18000 THEN FullCircle - out ELSE out

\* charts_utils.sliceToX / sliceToY: the angle a (slice, offset) pair is drawn at
sliceAngle(slice, offset) == slice * SliceWidth + offset

\* a Python list index: negative indices count from the end
PyIndex(idx, len) == IF idx < 0 THEN idx + len ELSE idx

-----------------------------------------------------------------------------
(* __init__ *)

\* the chart_type argument left out of the call
Omitted == "omitted"

\* what may be passed as chart_type
ChartTypeArgs == ChartTypes \cup {Omitted}

\* chart_type: ChartType = "ExternalNatal": the parameter's value in the body
BindChartType(arg) == IF arg = Omitted THEN "ExternalNatal" ELSE arg

SecondRequiredForTransitOnly(ct) == ct = "Transit"

\* if self.chart_type == "Transit" or self.chart_type == "Synastry"
SecondRequired(ct) == ct = "Transit" \/ ct = "Synastry"

\* KerykeionChartSVG.__init__: the second subject is required for Transit and
\* Synastry; otherwise the template is generated at once (makeTemplate).
Construct ==
    /\ pc = "new"
    /\ IF SecondRequired(chart_type) /\ ~second_obj
         THEN /\ pc' = "raised"
              /\ err' = "MissingSecondSubject"
         ELSE /\ pc' = "dict"
              /\ err' = err
    /\ UNCHANGED <<inputs, elements, ret, makePatterns, pass, template, scale, adjacency, patterns,
                   makeAspects, makeZodiac, makeHouses, natal, transit,
                   makePlanets, lunar_bracket>>

-----------------------------------------------------------------------------
(* _createTemplateDictionary: scale constants *)

\* the ring-radius fractions <<c0, c1, c2, c3>>, in hundredths
ScaleConstantsByFamily(ct) ==
    IF ct = "Natal" \/ ct = "ExternalNatal"
      THEN <<100, 90, 60, 52>>
      ELSE <<120, 85, 52, 0>>

ScaleConstants(ct) ==
    IF ct = "ExternalNatal"
      THEN <<100, 90, 60, 52>>
      ELSE <<120, 85, 52, 0>>

\* tallies that only the first call of _createTemplateDictionary empties
ElementsOfFirstCallOnly ==
    IF pass = 1 THEN [fire |-> 0, earth |-> 0, air |-> 0, water |-> 0] ELSE elements

\* self.fire = self.earth = self.air = self.water = 0.0
EmptyElements == [fire |-> 0, earth |-> 0, air |-> 0, water |-> 0]

\* the start of _createTemplateDictionary, up to the choice of c0..c3
BeginDictionary ==
    /\ pc = "dict"
    /\ elements' = EmptyElements
    /\ scale' = ScaleConstants(chart_type)
    /\ pc' = "aspects"
    /\ UNCHANGED <<inputs, ret, makePatterns, pass, err, template, adjacency, patterns,
                   makeAspects, makeZodiac, makeHouses, natal, transit,
                   makePlanets, lunar_bracket>>

-----------------------------------------------------------------------------
(* _makePatterns *)

\* the aspect ids _makePatterns reads from aspects_settings
AspectIds == [conj |-> 0, sext |-> 3, sq |-> 5, qc |-> 9, opp |-> 10]

AspectClasses == {"conj", "sext", "sq", "qc", "opp"}

ExcludedButNodes(n) ==
    n \in {"earth", "osc. apogee", "intp. apogee", "intp. perigee", "Dsc", "Ic"}

\* the point names skipped by the adjacency scan
Excluded(n) ==
    n \in {"earth", "True_Node", "osc. apogee", "intp. apogee",
           "intp. perigee", "Dsc", "Ic"}

InBandStrict(settings, aid, delta) ==
    LET xa == settings[aid].degree - settings[aid].orb
        xb == settings[aid].degree + settings[aid].orb
    IN  xa < delta /\ delta < xb

\* xa <= delta <= xb
InBand(settings, aid, delta) ==
    LET xa == settings[aid].degree - settings[aid].orb
        xb == settings[aid].degree + settings[aid].orb
    IN  xa <= delta /\ delta <= xb

\* one of conj, opp, sq, qc, sext: point -> the points recorded for it
AdjacencyMap(settings, deg, aid) ==
    [i \in PointIds |->
        IF Excluded(Name(i))
          THEN {}
          ELSE {j \in PointIds :
                  /\ ~Excluded(Name(j))
                  /\ InBand(settings, aid, degreeDiff(deg[i], deg[j]))}]

Adjacency(settings, deg) ==
    [c \in AspectClasses |-> AdjacencyMap(settings, deg, AspectIds[c])]

YotKeyAsScanned(k, l, m) == <<k, l, m>>

\* the key of a yot entry: the apex, then the two partners in index order
YotKey(k, l, m) == IF l > m THEN <<k, m, l>> ELSE <<k, l, m>>

\* for k: if len(qc[k]) >= 2: for l in qc[k]: for m in qc[k]: if m in sext[l]
Yots(adj) ==
    UNION {UNION {{YotKey(k, l, m) : m \in {x \in adj.qc[k] : x \in adj.sext[l]}} :
                    l \in adj.qc[k]} :
             k \in {x \in PointIds : Cardinality(adj.qc[x]) >= 2}}

TSquareKeyAsScanned(a, k, l) == <<a, k, l>>

\* the key of a tsquare entry: the apex, then the opposition in index order
TSquareKey(a, k, l) == IF k > l THEN <<a, l, k>> ELSE <<a, k, l>>

\* for k: for l in opp[k]: for a in sq: if k in sq[a] and l in sq[a]
TSquares(adj) ==
    UNION {UNION {{TSquareKey(a, k, l) :
                      a \in {x \in PointIds : k \in adj.sq[x] /\ l \in adj.sq[x]}} :
                    l \in adj.opp[k]} :
             k \in PointIds}

\* list.sort() of a list of integers
RECURSIVE SortList(_)
SortList(s) ==
    IF Len(s) <= 1
      THEN s
      ELSE LET m == CHOOSE i \in 1 .. Len(s) : \A j \in 1 .. Len(s) : s[i] <= s[j]
               rest == [j \in 1 .. (Len(s) - 1) |-> IF j < m THEN s[j] ELSE s[j + 1]]
           IN  <<s[m]>> \o SortList(rest)

StelliumKeyAsScanned(k, n, p, r) == <<k, n, p, r>>

\* the key of a stellium entry: l = [k, n, p, r]; l.sort()
StelliumKey(k, n, p, r) == SortList(<<k, n, p, r>>)

\* the five nested loops k, l, n, p, r over the conjunction maps: n skips k,
\* p skips k and n, r skips k, n and p; the entry is made of k, n, p and r
Stelliums(adj) ==
    UNION {UNION {UNION {UNION {{StelliumKey(k, n, p, r) :
                                    r \in adj.conj[p] \ {k, n, p}} :
                                  p \in adj.conj[n] \ {k, n}} :
                           n \in adj.conj[l] \ {k}} :
                    l \in adj.conj[k]} :
             k \in PointIds}

NoAdjacency == [c \in AspectClasses |-> [i \in PointIds |-> {}]]

NoPatterns == [yot |-> {}, tsquare |-> {}, stellium |-> {}]

Patterns(adj) ==
    [yot |-> Yots(adj), tsquare |-> TSquares(adj), stellium |-> Stelliums(adj)]

-----------------------------------------------------------------------------
(* rotation offsets of the layers *)

\* _zodiacSlice: offset = 360 - houses_degree_ut[6]
ZodiacOffset(h) == FullCircle - h[6]

\* _makeHouses: (int(houses_degree_ut[6]) / -1) + int(houses_degree_ut[i])
HouseOffset(h, i) == (-Trunc(h[6]) + Trunc(h[i])) * 100

\* _drawAspect: (int(houses_degree_ut[6]) / -1) + int(degA)
AspectOffset(h, deg) == (-Trunc(h[6]) + Trunc(deg)) * 100

\* _make_planets: (int(houses_degree_ut[6]) / -1) + int(points_deg_ut[i] + delta)
PlanetOffset(h, deg, delta) == (-Trunc(h[6]) + Trunc(deg + delta)) * 100

\* the second subject: zeropoint + t, less 360 when above 360
TransitOffset(h, t) ==
    LET zeropoint == FullCircle - h[6]
        t_offset == zeropoint + t
    IN  IF t_offset > FullCircle THEN t_offset - FullCircle ELSE t_offset

-----------------------------------------------------------------------------
(* aspect lines *)

\* NatalAspects(...).relevant_aspects: the pairs of points of one subject that
\* fall in the band of a configured aspect
NatalAspectsList(settings, deg) ==
    {pr \in PointIds \X PointIds :
        /\ pr[1] < pr[2]
        /\ \E c \in AspectClasses :
              InBand(settings, AspectIds[c], degreeDiff(deg[pr[1]], deg[pr[2]]))}

\* SynastryAspects(...).relevant_aspects: first subject's point, second's point
SynastryAspectsList(settings, deg, tdeg) ==
    {pr \in PointIds \X PointIds :
        \E c \in AspectClasses :
            InBand(settings, AspectIds[c], degreeDiff(deg[pr[1]], tdeg[pr[2]]))}

\* _drawAspect: one line, each end drawn at its own offset
DrawAspect(h, degA, degB) ==
    [degA |-> degA, degB |-> degB,
     offsetA |-> AspectOffset(h, degA), offsetB |-> AspectOffset(h, degB)]

\* _makeAspects / _makeAspectsTransit
MakeAspectLines(ct, settings, h, deg, tdeg) ==
    IF IsTransitFamily(ct)
      THEN {DrawAspect(h, deg[pr[1]], tdeg[pr[2]]) :
               pr \in SynastryAspectsList(settings, deg, tdeg)}
      ELSE {DrawAspect(h, deg[pr[1]], deg[pr[2]]) :
               pr \in NatalAspectsList(settings, deg)}

\* the empty string; a string is the sequence of its pieces
EmptyString == <<>>

\* out of _makePatterns: the opening tag, one "Yot" entry per yot found, the
\* closing tag
PatternsOut(pats) ==
    <<"<g>">> \o [y \in 1 .. Cardinality(pats.yot) |-> "Yot"] \o <<"</g>">>

MakePatternsReturnOut(out) == out

\* # return out
\* return ""
MakePatternsReturn(out) == EmptyString

\* td["makePatterns"]: "" for Transit and Synastry, else what _makePatterns
\* returns
TdMakePatterns(ct, pats) ==
    IF IsTransitFamily(ct)
      THEN EmptyString
      ELSE MakePatternsReturn(PatternsOut(pats))

\* the aspect lines, the aspect grid and the patterns of the template dictionary:
\* _makePatterns runs for Natal and ExternalNatal only
MakeAspectsAndPatterns ==
    /\ pc = "aspects"
    /\ makeAspects' = MakeAspectLines(chart_type, aspects_settings,
                                      houses_degree_ut, points_deg_ut,
                                      t_points_deg_ut)
    /\ IF IsTransitFamily(chart_type)
         THEN /\ adjacency' = NoAdjacency
              /\ patterns' = NoPatterns
         ELSE /\ adjacency' = Adjacency(aspects_settings, points_deg_ut)
              /\ patterns' = Patterns(adjacency')
    /\ makePatterns' = TdMakePatterns(chart_type, patterns')
    /\ pc' = "lunar"
    /\ UNCHANGED <<inputs, elements, ret, pass, err, template, scale, makeZodiac, makeHouses,
                   natal, transit, makePlanets, lunar_bracket>>

-----------------------------------------------------------------------------
(* lunar phase *)

\* the branch of the if / elif chain that takes deg; 0 when none does
LunarBracket(deg) ==
    IF deg < 9000 THEN 1
    ELSE IF deg < 18000 THEN 2
    ELSE IF deg < 27000 THEN 3
    ELSE IF deg < 36100 THEN 4
    ELSE 0

\* the lunar phase of the template dictionary: "Lunar phase error" when no
\* branch set lffg, lfbg, lfcx and lfr
LunarPhase ==
    /\ pc = "lunar"
    /\ lunar_bracket' = LunarBracket(lunar_deg)
    /\ IF LunarBracket(lunar_deg) = 0
         THEN /\ pc' = "raised"
              /\ err' = "LunarPhaseError"
         ELSE /\ pc' = "zodiac"
              /\ err' = err
    /\ UNCHANGED <<inputs, elements, ret, makePatterns, pass, template, scale, adjacency, patterns,
                   makeAspects, makeZodiac, makeHouses, natal, transit,
                   makePlanets>>

-----------------------------------------------------------------------------
(* _makeZodiac and _makeHouses *)

\* _zodiacSlice: the wedge from slice num to slice num + 1
ZodiacSlice(h, num) ==
    [num |-> num,
     from |-> sliceAngle(num, ZodiacOffset(h)),
     to |-> sliceAngle(num + 1, ZodiacOffset(h))]

\* _makeZodiac: for i in range(len(self.zodiac))
MakeZodiacWedgesShort(h) == [i \in 1 .. (ZodiacLen - 1) |-> ZodiacSlice(h, i - 1)]

MakeZodiacWedges(h) == [i \in 1 .. ZodiacLen |-> ZodiacSlice(h, i - 1)]

MakeZodiac ==
    /\ pc = "zodiac"
    /\ makeZodiac' = MakeZodiacWedges(houses_degree_ut)
    /\ pc' = "houses"
    /\ UNCHANGED <<inputs, elements, ret, makePatterns, pass, err, template, scale, adjacency, patterns,
                   makeAspects, makeHouses, natal, transit, makePlanets,
                   lunar_bracket>>

\* xr = 12
xr == 12

\* text_offset: the middle of house i
HouseTextOffset(h, i) ==
    LET nxt == IF i < xr - 1 THEN h[i + 1] ELSE h[0]
    IN  HouseOffset(h, i) + Trunc(degreeDiff(nxt, h[i]) \div 2) * 100

\* the lines of _makeHouses: one primary line per cusp and, for Transit and
\* Synastry, one line per cusp of the second subject
HouseLines(ct, h, th) ==
    [primary |-> [i \in 1 .. xr |->
                    [cusp |-> i - 1,
                     offset |-> HouseOffset(h, i - 1),
                     text_offset |-> HouseTextOffset(h, i - 1)]],
     secondary |-> IF IsTransitFamily(ct)
                     THEN [i \in 1 .. xr |->
                             [cusp |-> i - 1,
                              t_offset |-> TransitOffset(h, th[i - 1])]]
                     ELSE <<>>]

MakeHouses ==
    /\ pc = "houses"
    /\ makeHouses' = HouseLines(chart_type, houses_degree_ut, t_houses_degree_ut)
    /\ pc' = "planets"
    /\ UNCHANGED <<inputs, elements, ret, makePatterns, pass, err, template, scale, adjacency, patterns,
                   makeAspects, makeZodiac, natal, transit, makePlanets,
                   lunar_bracket>>

-----------------------------------------------------------------------------
(* _make_planets: the natal deconflicter *)

\* planets_degut[points_deg_ut[i]] = i: a dictionary keyed by longitude, so of
\* several points at one longitude the last one written stays
PlanetsDegut(deg, ids) ==
    [k \in {deg[i] : i \in ids} |-> Max({i \in ids : deg[i] = k})]

\* keys = list(planets_degut.keys()); keys.sort()  (positions from 0)
SortedKeys(S) ==
    [e \in 0 .. (Cardinality(S) - 1) |->
        CHOOSE k \in S : Cardinality({x \in S : x < k}) = e]

\* planets_by_pos[e] = [i, diffa, diffb]: the gaps to the cyclic neighbours
PlanetsByPos(dg) ==
    LET keys == SortedKeys(DOMAIN dg)
        n == Cardinality(DOMAIN dg)
    IN  [e \in 0 .. (n - 1) |->
            [i |-> dg[keys[e]],
             diffa |-> degreeDiff(keys[(e + n - 1) % n], keys[e]),
             diffb |-> degreeDiff(keys[(e + 1) % n], keys[e])]]

\* diffb < planet_drange
NatalClose(diff) == diff < planet_drange

\* the scan that collects the groups of close points: positions e .. n - 1
RECURSIVE GroupScan(_, _, _, _, _)
GroupScan(pos, n, e, groups, group_open) ==
    IF e >= n
      THEN groups
      ELSE LET entry == [e |-> e, diffa |-> pos[e].diffa, diffb |-> pos[e].diffb]
           IN  IF NatalClose(pos[e].diffb)
                 THEN IF group_open
                        THEN GroupScan(pos, n, e + 1,
                                 [groups EXCEPT ![Len(groups)] = Append(@, entry)],
                                 TRUE)
                        ELSE GroupScan(pos, n, e + 1, Append(groups, <<entry>>), TRUE)
                 ELSE IF group_open
                        THEN GroupScan(pos, n, e + 1,
                                 [groups EXCEPT ![Len(groups)] = Append(@, entry)],
                                 FALSE)
                        ELSE GroupScan(pos, n, e + 1, groups, FALSE)

\* the position next to the group's first member
NextToA(g) == g[1].e - 1

\* the position next to the group's second member
NextToB(g, n) == IF g[2].e = n - 1 THEN 0 ELSE g[2].e + 1

CascadeRoomWide(gap) == 10 * gap > 25 * planet_drange

\* "planet next to a has room" / "planet next to b has room":
\* planets_by_pos[...] > (2 * planet_drange)
CascadeRoom(gap) == gap > 2 * planet_drange

\* a chain that tests "planet a has room" before "both planets have room"
TwoGroupRuleNoPriority(pos, n, g) ==
    IF g[1].diffa > 2 * planet_drange THEN 2
    ELSE IF g[2].diffb > 2 * planet_drange THEN 3
    ELSE 0

\* a chain that tests "planets next to a and b have room" first
TwoGroupRuleCascadeFirst(pos, n, g) ==
    LET a == pos[PyIndex(NextToA(g), n)]
        b == pos[NextToB(g, n)]
    IN  IF /\ a.diffa > (24 * planet_drange) \div 10
           /\ b.diffb > (24 * planet_drange) \div 10 THEN 4
        ELSE IF g[1].diffa > 2 * planet_drange /\ g[2].diffb > 2 * planet_drange THEN 1
        ELSE IF g[1].diffa > 2 * planet_drange THEN 2
        ELSE IF g[2].diffb > 2 * planet_drange THEN 3
        ELSE IF CascadeRoom(a.diffa) THEN 5
        ELSE IF CascadeRoom(b.diffb) THEN 6
        ELSE 0

\* which branch of the if / elif chain of a two-member group is taken; 0 for none
TwoGroupRule(pos, n, g) ==
    LET a == pos[PyIndex(NextToA(g), n)]
        b == pos[NextToB(g, n)]
    IN  IF g[1].diffa > 2 * planet_drange /\ g[2].diffb > 2 * planet_drange THEN 1
        ELSE IF g[1].diffa > 2 * planet_drange THEN 2
        ELSE IF g[2].diffb > 2 * planet_drange THEN 3
        ELSE IF /\ a.diffa > (24 * planet_drange) \div 10
                /\ b.diffb > (24 * planet_drange) \div 10 THEN 4
        ELSE IF CascadeRoom(a.diffa) THEN 5
        ELSE IF CascadeRoom(b.diffb) THEN 6
        ELSE 0

\* one assignment planets_delta[idx] = v
SetDelta(delta, idx, v) == [delta EXCEPT ![PyIndex(idx, NPoints)] = v]

\* the assignments of a two-member group, in the order of the code
TwoGroupDelta(pos, n, g, delta) ==
    LET rule == TwoGroupRule(pos, n, g)
        D == planet_drange
    IN  CASE rule = 1 ->
               SetDelta(SetDelta(delta, g[1].e, -((D - g[1].diffb) \div 2)),
                        g[2].e, (D - g[1].diffb) \div 2)
          [] rule = 2 -> SetDelta(delta, g[1].e, -D)
          [] rule = 3 -> SetDelta(delta, g[2].e, D)
          [] rule = 4 ->
               SetDelta(
                 SetDelta(
                   SetDelta(
                     SetDelta(delta, NextToA(g), g[1].diffa - D * 2),
                     g[1].e, -(D \div 2)),
                   NextToB(g, n), -(g[2].diffb - D * 2)),
                 g[2].e, D \div 2)
          [] rule = 5 ->
               SetDelta(SetDelta(delta, NextToA(g), g[1].diffa - (D * 25) \div 10),
                        g[1].e, -((D * 12) \div 10))
          [] rule = 6 ->
               SetDelta(SetDelta(delta, NextToB(g, n),
                                 -(g[2].diffb - (D * 25) \div 10)),
                        g[2].e, (D * 12) \div 10)
          [] OTHER -> delta

RECURSIVE SumDiffb(_, _)
SumDiffb(g, f) == IF f = 0 THEN 0 ELSE g[f].diffb + SumDiffb(g, f - 1)

\* available = the first member's diffa plus every member's diffb
Available(g) == g[1].diffa + SumDiffb(g, Len(g))

\* need = 3 * planet_drange + 1.2 * (xl - 1) * planet_drange
Need(xl) == 3 * planet_drange + ((12 * (xl - 1) * planet_drange) \div 10)

\* startA: centred, or the left share of the leftover
StartA(g) ==
    LET xl == Len(g)
        need == Need(xl)
        leftover == Available(g) - need
        xa == g[1].diffa
        xb == g[xl].diffb
    IN  IF xa > need \div 2 /\ xb > need \div 2
          THEN xa - need \div 2
          ELSE (leftover * xa) \div (xa + xb)

GroupStepOfD == planet_drange

\* 1.2 * planet_drange, the step from one member of a group to the next
GroupStep == (12 * planet_drange) \div 10

\* the walk over the members after the first: each 1.2 * planet_drange further
RECURSIVE WalkGroup(_, _, _)
WalkGroup(g, f, delta) ==
    IF f >= Len(g)
      THEN delta
      ELSE WalkGroup(g, f + 1,
               SetDelta(delta, g[f + 1].e,
                        GroupStep
                          + delta[PyIndex(g[f].e, NPoints)] - g[f].diffb))

EnoughRoomOrEqual(available, need) == available >= need

\* if available > need
EnoughRoom(available, need) == available > need

\* the assignments of a group of three or more
ManyGroupDelta(g, delta) ==
    IF EnoughRoom(Available(g), Need(Len(g)))
      THEN WalkGroup(g, 1,
               SetDelta(delta, g[1].e,
                        StartA(g) - g[1].diffa + (15 * planet_drange) \div 10))
      ELSE delta

\* for a in range(len(groups)): groups a .. len(groups)
RECURSIVE DeltaLoop(_, _, _, _, _)
DeltaLoop(pos, n, groups, a, delta) ==
    IF a > Len(groups)
      THEN delta
      ELSE LET g == groups[a]
               d == IF Len(g) = 2 THEN TwoGroupDelta(pos, n, g, delta)
                    ELSE IF Len(g) >= 3 THEN ManyGroupDelta(g, delta)
                    ELSE delta
           IN  DeltaLoop(pos, n, groups, a + 1, d)

\* planets_delta starts as a list of zeros, one per active point
ZeroDelta == [x \in PointIds |-> 0]

\* the whole natal pass: the sorted keys, the gaps, the groups and the deltas
NatalPass(deg) ==
    LET dg == PlanetsDegut(deg, PointIds)
        n == Cardinality(DOMAIN dg)
        pos == PlanetsByPos(dg)
        groups == GroupScan(pos, n, 0, <<>>, FALSE)
    IN  [n |-> n,
         keys |-> SortedKeys(DOMAIN dg),
         planets_degut |-> dg,
         planets_by_pos |-> pos,
         groups |-> groups,
         planets_delta |-> DeltaLoop(pos, n, groups, 1, ZeroDelta)]

\* the glyph of each position e: the point, its displaced and its true offset
NatalGlyphs(h, deg, np) ==
    [e \in 0 .. (np.n - 1) |->
        LET i == np.planets_by_pos[e].i
        IN  [i |-> i,
             offset |-> PlanetOffset(h, deg[i], np.planets_delta[e]),
             trueoffset |-> PlanetOffset(h, deg[i], 0)]]

-----------------------------------------------------------------------------
(* _make_planets: the transit ring *)

\* list_range: a Transit chart leaves the last four points out
ListRange(ct) == IF ct = "Transit" THEN NPoints - 4 ELSE NPoints

\* diff <= 2.5
TransitClose(diff) == diff <= t_drange

\* the scan that collects the groups of close transit points
RECURSIVE TransitScan(_, _, _, _, _, _)
TransitScan(tdg, t_keys, n, e, groups, in_group) ==
    IF e >= n
      THEN groups
      ELSE LET i_a == tdg[t_keys[e]]
               i_b == IF e = n - 1 THEN tdg[t_keys[0]] ELSE tdg[t_keys[e + 1]]
               diff == degreeDiff(t_keys[e], IF e = n - 1 THEN t_keys[0] ELSE t_keys[e + 1])
           IN  IF TransitClose(diff)
                 THEN IF in_group
                        THEN TransitScan(tdg, t_keys, n, e + 1,
                                 [groups EXCEPT ![Len(groups)] = Append(@, i_b)], TRUE)
                        ELSE TransitScan(tdg, t_keys, n, e + 1,
                                 Append(groups, <<i_a, i_b>>), TRUE)
                 ELSE TransitScan(tdg, t_keys, n, e + 1, groups, FALSE)

\* the fixed offsets of a group of 2, 3 or 4, written in the order of the code
GroupOffsets(g, off) ==
    CASE Len(g) = 2 -> [[off EXCEPT ![g[1]] = -100] EXCEPT ![g[2]] = 100]
      [] Len(g) = 3 ->
           [[[off EXCEPT ![g[1]] = -150] EXCEPT ![g[2]] = 0] EXCEPT ![g[3]] = 150]
      [] Len(g) = 4 ->
           [[[[off EXCEPT ![g[1]] = -200] EXCEPT ![g[2]] = -100]
                EXCEPT ![g[3]] = 100] EXCEPT ![g[4]] = 200]
      [] OTHER -> off

RECURSIVE OffsetLoop(_, _, _)
OffsetLoop(groups, a, off) ==
    IF a > Len(groups)
      THEN off
      ELSE OffsetLoop(groups, a + 1, GroupOffsets(groups[a], off))

\* the whole transit pass: groups and group_offset
TransitPass(ct, tdeg) ==
    LET ids == 0 .. (ListRange(ct) - 1)
        tdg == PlanetsDegut(tdeg, ids)
        n == Cardinality(DOMAIN tdg)
        t_keys == SortedKeys(DOMAIN tdg)
        groups == TransitScan(tdg, t_keys, n, 0, <<>>, FALSE)
    IN  [n |-> n,
         t_keys |-> t_keys,
         t_planets_degut |-> tdg,
         groups |-> groups,
         group_offset |-> OffsetLoop(groups, 1, [i \in ids |-> 0])]

NoTransit ==
    [n |-> 0, t_keys |-> <<>>, t_planets_degut |-> <<>>, groups |-> <<>>,
     group_offset |-> <<>>]

\* the glyph of each transit position: its offset and the offset of its text
TransitGlyphs(h, tdeg, tp) ==
    [e \in 0 .. (tp.n - 1) |->
        LET i == tp.t_planets_degut[tp.t_keys[e]]
        IN  [i |-> i,
             t_offset |-> TransitOffset(h, tdeg[i]),
             text_offset |-> TransitOffset(h, tdeg[i]) + tp.group_offset[i]]]

-----------------------------------------------------------------------------
(* _value_element_from_planet *)

\* points_sign: the sign 0..11 each point stands in, the sign of its longitude
PointsSign(deg) == [i \in PointIds |-> deg[i] \div 3000]

\* self.zodiac[sign]["element"]
ZodiacElement(sign) ==
    CASE sign % 4 = 0 -> "fire"
      [] sign % 4 = 1 -> "earth"
      [] sign % 4 = 2 -> "air"
      [] sign % 4 = 3 -> "water"

\* available_planets_setting[i]["element_points"]
ElementPoints(i) ==
    CASE Name(i) \in {"Sun", "Moon"} -> 40
      [] Name(i) \in {"Mercury", "Venus", "Mars"} -> 15
      [] Name(i) \in {"Jupiter", "Saturn"} -> 10
      [] OTHER -> 0

\* available_planets_setting[i]["related_zodiac_signs"]
RelatedZodiacSigns(i) ==
    CASE Name(i) = "Sun" -> {4}
      [] Name(i) = "Moon" -> {3}
      [] Name(i) = "Mercury" -> {2, 5}
      [] Name(i) = "Venus" -> {1, 6}
      [] Name(i) = "Mars" -> {0}
      [] Name(i) = "Jupiter" -> {8}
      [] Name(i) = "Saturn" -> {9}
      [] OTHER -> {}

\* settings["general_settings"]["planet_in_zodiac_extra_points"]
planet_in_zodiac_extra_points == 10

\* _value_element_from_planet(i): the element of the point's sign gains the
\* point's element_points, and the extra points when the sign is its own
ValueElementFromPlanet(el, i, sign) ==
    LET extra_points == IF sign[i] \in RelatedZodiacSigns(i)
                          THEN planet_in_zodiac_extra_points
                          ELSE 0
    IN  [el EXCEPT ![ZodiacElement(sign[i])] = @ + ElementPoints(i) + extra_points]

\* the loop of _make_planets over every point i, from i on
RECURSIVE ValueElements(_, _, _)
ValueElements(el, i, sign) ==
    IF i >= NPoints
      THEN el
      ELSE ValueElements(ValueElementFromPlanet(el, i, sign), i + 1, sign)

-----------------------------------------------------------------------------
(* _make_planets and the end of _createTemplateDictionary *)

\* _make_planets, then the return of _createTemplateDictionary to makeTemplate,
\* which calls it a second time before the template is kept.  The elements
\* are tallied in the first loop; then, with a single key, keys[1] raises
\* IndexError.  newdeg is what points_deg_ut holds after.
MakePlanetsStep(newdeg) ==
    /\ pc = "planets"
    /\ points_deg_ut' = newdeg
    /\ elements' = ValueElements(elements, 0, PointsSign(points_deg_ut))
    /\ IF Cardinality({points_deg_ut[i] : i \in PointIds}) < 2
         THEN /\ pc' = "raised"
              /\ err' = "IndexError"
              /\ UNCHANGED <<natal, transit, makePlanets, pass, template>>
         ELSE /\ natal' = NatalPass(points_deg_ut)
              /\ transit' = IF IsTransitFamily(chart_type)
                              THEN TransitPass(chart_type, t_points_deg_ut)
                              ELSE NoTransit
              /\ makePlanets' =
                    [glyphs |-> NatalGlyphs(houses_degree_ut, points_deg_ut, natal'),
                     t_glyphs |-> IF IsTransitFamily(chart_type)
                                    THEN TransitGlyphs(houses_degree_ut,
                                                       t_points_deg_ut, transit')
                                    ELSE <<>>]
              /\ err' = err
              /\ IF pass = 1
                   THEN pc' = "dict" /\ pass' = 2 /\ template' = template
                   ELSE pc' = "done" /\ pass' = pass /\ template' = TRUE
    /\ UNCHANGED <<chart_type_arg, call, ret, makePatterns, chart_type,
                   second_obj, houses_degree_ut, t_houses_degree_ut,
                   t_points_deg_ut, aspects_settings, lunar_deg, scale, adjacency,
                   patterns, makeAspects, makeZodiac, makeHouses, lunar_bracket>>

\* a deconflicter that stores the displaced longitudes in place
MakePlanetsInPlace ==
    MakePlanetsStep(
        LET np == NatalPass(points_deg_ut)
        IN  [i \in PointIds |->
               IF \E e \in 0 .. (np.n - 1) : np.planets_by_pos[e].i = i
                 THEN LET e == CHOOSE e \in 0 .. (np.n - 1) : np.planets_by_pos[e].i = i
                      IN  points_deg_ut[i] + np.planets_delta[e]
                 ELSE points_deg_ut[i]])

MakePlanets == MakePlanetsStep(points_deg_ut)

-----------------------------------------------------------------------------
(* Helper functions: _dec2deg and degreeDiff, called on their own *)

\* a Python value passed as the format selector: its type and its text
PyStr(v) == [py |-> "str", v |-> v]

PyInt(v) == [py |-> "int", v |-> v]

\* type == "3": a str equals only a str of the same text
PyEq(x, lit) == x.py = "str" /\ x.v = lit

\* int(x / d) for d > 0: truncation toward zero
TruncDiv(x, d) == IF x >= 0 THEN x \div d ELSE -((-x) \div d)

\* round(x / d) for an odd d > 0, where no tie arises
RoundDiv(x, d) == (2 * x + d) \div (2 * d)

\* any selector is accepted
Dec2DegSelectorOk(type) == TRUE

\* the if / elif chain on type: "3", "2", "1", else the exception
Dec2DegSelector(type) == PyEq(type, "3") \/ PyEq(type, "2") \/ PyEq(type, "1")

\* _dec2deg(dec, type), dec in hundredths of a degree.  a_new, the minutes, is
\* held in fifths of a minute (0.01 degree is 3/5 minute); the float
\* arithmetic of the code is taken as exact.
Dec2Deg(dec, type) ==
    LET a == Trunc(dec)
        a_new5 == (dec - a * 100) * 3
        b_rounded == RoundDiv(a_new5, 5)
        b == TruncDiv(a_new5, 5)
        c == (a_new5 - b * 5) * 12
    IN  IF ~Dec2DegSelector(type)
          THEN [kind |-> "KerykeionException", value |-> <<>>]
          ELSE IF PyEq(type, "3") THEN [kind |-> "str", value |-> <<a, b, c>>]
          ELSE IF PyEq(type, "2") THEN [kind |-> "str", value |-> <<a, b_rounded>>]
          ELSE [kind |-> "str", value |-> <<a>>]

\* one call of _dec2deg
CallDec2Deg ==
    /\ call.fn = "_dec2deg"
    /\ ret.kind = "none"
    /\ ret' = Dec2Deg(call.args[1], call.args[2])
    /\ UNCHANGED <<inputs, elements, makePatterns, pc, pass, err, template, scale,
                   adjacency, patterns, makeAspects, makeZodiac, makeHouses,
                   natal, transit, makePlanets, lunar_bracket>>

\* one call of degreeDiff
CallDegreeDiff ==
    /\ call.fn = "degreeDiff"
    /\ ret.kind = "none"
    /\ ret' = [kind |-> "float", value |-> <<degreeDiff(call.args[1], call.args[2])>>]
    /\ UNCHANGED <<inputs, elements, makePatterns, pc, pass, err, template, scale,
                   adjacency, patterns, makeAspects, makeZodiac, makeHouses,
                   natal, transit, makePlanets, lunar_bracket>>

-----------------------------------------------------------------------------
(* The inputs of a build *)

\* twelve cusps from the ascendant on: equal houses, or houses of unequal
\* width whose opposite cusps stay 180 degrees apart
HouseSkew == <<0, -250, -424, 0, 250, 424, 0, -250, -424, 0, 250, 424>>

Cusps(asc, skewed) ==
    [i \in 0 .. 11 |->
        (asc + i * SliceWidth + (IF skewed THEN HouseSkew[i + 1] ELSE 0)) % FullCircle]

Ascendants == {0, 1050, 19276}

DefaultCusps == Cusps(1050, TRUE)

\* the aspect definitions _makePatterns reads: conjunction, sextile, square,
\* quincunx and opposition, each with an orb of 8 degrees
DefaultAspects ==
    [aid \in {0, 3, 5, 9, 10} |->
        [degree |-> CASE aid = 0 -> 0
                      [] aid = 3 -> 6000
                      [] aid = 5 -> 9000
                      [] aid = 9 -> 15000
                      [] aid = 10 -> 18000,
         orb |-> 800]]

\* 60 degrees apart from 10.50 on
SpreadPoints == [i \in PointIds |-> (1050 + i * 6000) % FullCircle]

\* the first two points 2 degrees apart, the others 60 degrees apart
PairedPoints ==
    [i \in PointIds |-> IF i = 1 THEN 1250 ELSE (1050 + i * 6000) % FullCircle]

\* every point within 2.5 degrees of the next one
ClusteredPoints == [i \in PointIds |-> 10000 + i * 250]

\* every point at one longitude
CoincidentPoints == [i \in PointIds |-> 20000]

\* one pair exactly 3.4 degrees apart and one pair exactly 2.5 degrees apart
EdgePoints == (0 :> 1050) @@ (1 :> 1390) @@ (2 :> 13050) @@ (3 :> 13300)
                @@ [i \in PointIds |-> (1050 + i * 6000) % FullCircle]

CoreLayouts ==
    {SpreadPoints, PairedPoints, ClusteredPoints, CoincidentPoints, EdgePoints}

LunarDegs ==
    {-100, 0, 8998, 9000, 17998, 18000, 26998, 27000, 35998, 36000, 36050,
     36098, 36100, 40000}

\* the longitudes of the deconfliction cases
NatalLons == {0, 200, 1000, 18000, 35900}

\* the longitudes of a chain of conjunctions, and one just out of orb
StelliumLons == {0, 800, 1600, 2400, 3202}

\* the longitudes of oppositions and squares, at the orb's edge and just past it
AspectLons == {0, 800, 802, 9000, 18000}

\* an apex at 0, points 150 and 210 degrees from it (60 degrees apart), one at
\* 158 (the edge of the quincunx orb, 52 from 210) and one at 218.02 (just
\* outside the quincunx orb)
YodLons == {0, 15000, 15800, 21000, 21802}

\* a pair 2 degrees apart at 0 and 2 with a point 3.4 degrees after it, a
\* point 1.18 degrees before it across the 360/0 boundary and one 6.82 degrees
\* before that
OrderLons == {35200, 35882, 0, 200, 540}

\* no helper function is called during a build
NoCall == [fn |-> "none", args |-> <<>>]

NoReturn == [kind |-> "none", value |-> <<>>]

\* a longitude far from those of every placement, in no aspect with them
FarLon == 13200

\* the placements of the first NPlaced points on lons; the other points stand
\* at fill, fill + 4 degrees, ...
Placements(lons, fill) ==
    {[i \in PointIds |-> IF i < NPlaced THEN f[i] ELSE fill + (i - NPlaced) * 400] :
        f \in [0 .. (NPlaced - 1) -> lons]}

\* the placements whose longitudes do not decrease with the point's index
OrderedPlacements(lons, fill) ==
    {p \in Placements(lons, fill) :
        \A i \in 0 .. (NPlaced - 2) : p[i] <= p[i + 1]}

\* nothing computed yet
Blank ==
    /\ pc = "new"
    /\ makePatterns = <<"unset">>
    /\ elements = <<"unset">>
    /\ pass = 1
    /\ err = "none"
    /\ template = FALSE
    /\ scale = <<>>
    /\ adjacency = NoAdjacency
    /\ patterns = NoPatterns
    /\ makeAspects = {}
    /\ makeZodiac = <<>>
    /\ makeHouses = [primary |-> <<>>, secondary |-> <<>>]
    /\ natal = [n |-> 0, keys |-> <<>>, planets_degut |-> <<>>,
                planets_by_pos |-> <<>>, groups |-> <<>>,
                planets_delta |-> ZeroDelta]
    /\ transit = NoTransit
    /\ makePlanets = [glyphs |-> <<>>, t_glyphs |-> <<>>]
    /\ lunar_bracket = 0

\* every chart type, with and without a second subject, over the house
\* systems and the point layouts; and every lunar angle
InitCore ==
    /\ aspects_settings = DefaultAspects
    /\ call = NoCall
    /\ ret = NoReturn
    /\ \/ /\ chart_type_arg \in ChartTypeArgs
          /\ chart_type = BindChartType(chart_type_arg)
          /\ second_obj \in BOOLEAN
          /\ \E asc \in Ascendants, skewed \in BOOLEAN :
                houses_degree_ut = Cusps(asc, skewed)
          /\ t_houses_degree_ut = Cusps(7432, TRUE)
          /\ points_deg_ut \in CoreLayouts
          /\ t_points_deg_ut \in {SpreadPoints, PairedPoints, EdgePoints}
          /\ lunar_deg = 4500
       \/ /\ chart_type_arg \in ChartTypeArgs
          /\ chart_type = BindChartType(chart_type_arg)
          /\ second_obj = TRUE
          /\ houses_degree_ut = DefaultCusps
          /\ t_houses_degree_ut = Cusps(7432, TRUE)
          /\ points_deg_ut = SpreadPoints
          /\ t_points_deg_ut = SpreadPoints
          /\ lunar_deg \in LunarDegs
    /\ Blank

\* a chart of one subject over every placement of the points on lons
InitPlacement(lons) ==
    /\ aspects_settings = DefaultAspects
    /\ call = NoCall
    /\ ret = NoReturn
    /\ chart_type_arg = "Natal"
    /\ chart_type = BindChartType(chart_type_arg)
    /\ second_obj = FALSE
    /\ houses_degree_ut = DefaultCusps
    /\ t_houses_degree_ut = DefaultCusps
    /\ points_deg_ut \in Placements(lons, FarLon)
    /\ t_points_deg_ut = SpreadPoints
    /\ lunar_deg = 4500
    /\ Blank

\* five transit longitudes 2 degrees apart, each within 2.5 degrees of the next
TransitChainLons == {100, 300, 500, 700, 900}

\* transit longitudes around the 360/0 boundary: 359 and 1 are 2 degrees
\* apart, 3 and 5 follow, 100 is far from all
TransitWrapLons == {35900, 100, 300, 500, 10000}

\* a chart of two subjects over the placements of the second subject's points
InitTransit ==
    /\ aspects_settings = DefaultAspects
    /\ call = NoCall
    /\ ret = NoReturn
    /\ chart_type_arg \in {"Transit", "Synastry"}
    /\ chart_type = BindChartType(chart_type_arg)
    /\ second_obj = TRUE
    /\ houses_degree_ut = DefaultCusps
    /\ t_houses_degree_ut = Cusps(7432, TRUE)
    /\ points_deg_ut = SpreadPoints
    /\ t_points_deg_ut \in Placements(TransitChainLons, FarLon)
                            \cup OrderedPlacements(TransitWrapLons, FarLon)
    /\ lunar_deg = 4500
    /\ Blank

\* the angles handed to _dec2deg: whole degrees, fractions, a negative one
DecValues == {-1250, 0, 2, 50, 98, 100, 999, 1050, 2998, 12346, 35998, 36000}

\* the format selectors: the three recognized ones, other strings, integers
FormatSelectors ==
    {PyStr("1"), PyStr("2"), PyStr("3"), PyStr("0"), PyStr("4"), PyStr(""),
     PyStr("03"), PyStr("12"), PyInt("1"), PyInt("3")}

\* the longitudes handed to degreeDiff, all in [0, 360)
DiffLons ==
    {0, 2, 1000, 9000, 17998, 18000, 18002, 19000, 27000, 35000, 35900, 35998}

\* one helper call on an object whose build is not looked at
InitHelpers ==
    /\ aspects_settings = DefaultAspects
    /\ chart_type_arg = "Natal"
    /\ chart_type = BindChartType(chart_type_arg)
    /\ second_obj = FALSE
    /\ houses_degree_ut = DefaultCusps
    /\ t_houses_degree_ut = DefaultCusps
    /\ points_deg_ut = SpreadPoints
    /\ t_points_deg_ut = SpreadPoints
    /\ lunar_deg = 4500
    /\ \/ \E dec \in DecValues, type \in FormatSelectors :
             call = [fn |-> "_dec2deg", args |-> <<dec, type>>]
       \/ \E a, b \in DiffLons :
             call = [fn |-> "degreeDiff", args |-> <<a, b>>]
    /\ ret = NoReturn
    /\ Blank

\* a pair 2 degrees apart (10 and 12), a point exactly 6.8 degrees (2 *
\* planet_drange) before it and one as far after it, and a point 6.8 degrees
\* before the first of these
RoomLons == {35640, 320, 1000, 1200, 1880}

\* the point 6.8 degrees after the last of RoomLons
RoomEnd == 2560

\* the point 8 degrees after the last of RoomLons
RoomEndWide == 2680

\* a run of three points 2 degrees apart, a point 6 degrees before it and one
\* 8.36 degrees after it: available is then exactly the need of three, 18.36
GroupLons == {400, 1000, 1200, 1400, 2236}

\* a pair 2 degrees apart just after 0 degrees (1 and 3), a point 6 degrees
\* before it across the 360/0 boundary and one 8 degrees before that, one 6
\* degrees after the pair
WrapLons == {34700, 35500, 100, 300, 900}

\* a pair at 0 and 2, a point 7 degrees after it and a second pair 4 degrees
\* after that point
SharedLons == {0, 200, 900, 1300, 1500}

\* the point 6 degrees after the last of SharedLons
SharedEnd == 2100

\* a pair at 0 and 2, a point 9 degrees after it and a second pair 9 degrees
\* after that point
TwinLons == {0, 200, 1100, 2000, 2200}

\* a chart of one subject over the placements with a point between two pairs
InitShared ==
    /\ aspects_settings = DefaultAspects
    /\ call = NoCall
    /\ ret = NoReturn
    /\ chart_type_arg = "Natal"
    /\ chart_type = BindChartType(chart_type_arg)
    /\ second_obj = FALSE
    /\ houses_degree_ut = DefaultCusps
    /\ t_houses_degree_ut = DefaultCusps
    /\ points_deg_ut \in OrderedPlacements(SharedLons, SharedEnd)
                           \cup Placements(TwinLons, FarLon)
    /\ t_points_deg_ut = SpreadPoints
    /\ lunar_deg = 4500
    /\ Blank

\* a chart of one subject over the placements that leave a group of close
\* points much room, little room or none: every index order for the first
\* family, one index order for the others
InitRoom ==
    /\ aspects_settings = DefaultAspects
    /\ call = NoCall
    /\ ret = NoReturn
    /\ chart_type_arg = "Natal"
    /\ chart_type = BindChartType(chart_type_arg)
    /\ second_obj = FALSE
    /\ houses_degree_ut = DefaultCusps
    /\ t_houses_degree_ut = DefaultCusps
    /\ points_deg_ut \in Placements(RoomLons, RoomEnd)
                           \cup OrderedPlacements(RoomLons, RoomEndWide)
                           \cup OrderedPlacements(GroupLons, FarLon)
                           \cup OrderedPlacements(WrapLons, FarLon)
    /\ t_points_deg_ut = SpreadPoints
    /\ lunar_deg = 4500
    /\ Blank

Init == InitCore

InitNatal == InitCore \/ InitPlacement(NatalLons)

InitPatterns == InitCore \/ InitPlacement(StelliumLons) \/ InitPlacement(AspectLons)

Next ==
    \/ Construct
    \/ BeginDictionary
    \/ MakeAspectsAndPatterns
    \/ LunarPhase
    \/ MakeZodiac
    \/ MakeHouses
    \/ MakePlanets

Spec == Init /\ [][Next]_vars

SpecNatal == InitNatal /\ [][Next]_vars

SpecPatterns == InitPatterns /\ [][Next]_vars

SpecRoom == (InitCore \/ InitRoom) /\ [][Next]_vars

SpecShared == (InitCore \/ InitShared) /\ [][Next]_vars

SpecOrder == (InitCore \/ InitPlacement(OrderLons)) /\ [][Next]_vars

SpecYod == (InitCore \/ InitPlacement(YodLons)) /\ [][Next]_vars

SpecTransit == (InitCore \/ InitTransit) /\ [][Next]_vars

NextHelpers ==
    \/ CallDec2Deg
    \/ CallDegreeDiff

SpecHelpers == InitHelpers /\ [][NextHelpers]_vars

-----------------------------------------------------------------------------
(* Positions of the build *)

StepIndex ==
    [new |-> 0, dict |-> 1, aspects |-> 2, lunar |-> 3, zodiac |-> 4,
     houses |-> 5, planets |-> 6, done |-> 7]

\* the position the build stands at, or stood at when it raised
Position ==
    IF pc # "raised" THEN StepIndex[pc]
    ELSE IF err = "MissingSecondSubject" THEN 0
    ELSE IF err = "LunarPhaseError" THEN 3
    ELSE 6

\* the step taken from position step has run at least once
HasRun(step) == pass = 2 \/ Position > StepIndex[step] \/ (pc = "raised" /\ Position = StepIndex[step])

NatalFamily == chart_type = "Natal" \/ chart_type = "ExternalNatal"

-----------------------------------------------------------------------------
(* Claims *)

\* the angle (360 - cusp[6]) + L, modulo 360
Anchored(L) == Norm(FullCircle - houses_degree_ut[6] + L)

\* C1: the zodiac, house, aspect and glyph layers all draw a longitude L at
\* the angle (360 - cusp[6]) + L modulo 360, whatever cusp[6] is.
C1_SameAnchor ==
    /\ \A w \in DOMAIN makeZodiac :
          Norm(makeZodiac[w].from) = Anchored(makeZodiac[w].num * SliceWidth)
    /\ \A i \in DOMAIN makeHouses.primary :
          Norm(makeHouses.primary[i].offset)
            = Anchored(houses_degree_ut[makeHouses.primary[i].cusp])
    /\ \A ln \in makeAspects :
          /\ Norm(ln.offsetA) = Anchored(ln.degA)
          /\ Norm(ln.offsetB) = Anchored(ln.degB)
    /\ \A e \in DOMAIN makePlanets.glyphs :
          Norm(makePlanets.glyphs[e].trueoffset)
            = Anchored(points_deg_ut[makePlanets.glyphs[e].i])

\* C2: the build raises MissingSecondSubject if and only if the chart is a
\* Transit or Synastry chart built without a second subject; nothing is
\* generated then; a Natal or ExternalNatal chart never raises it.
C2_MissingSecondSubject ==
    /\ (err = "MissingSecondSubject")
         <=> (pc # "new" /\ chart_type \in {"Transit", "Synastry"} /\ ~second_obj)
    /\ err = "MissingSecondSubject" =>
         /\ pc = "raised"
         /\ template = FALSE
         /\ scale = <<>>
         /\ makeZodiac = <<>>
         /\ makeAspects = {}
    /\ chart_type \in {"Natal", "ExternalNatal"} => err # "MissingSecondSubject"

C2_Witness ==
    /\ chart_type = "Synastry"
    /\ ~second_obj
    /\ err = "MissingSecondSubject"

\* the delta of point i: that of its position on the wheel, 0 when it has none
DeltaOf(i) ==
    IF \E e \in DOMAIN natal.planets_by_pos : natal.planets_by_pos[e].i = i
      THEN natal.planets_delta[
               CHOOSE e \in DOMAIN natal.planets_by_pos : natal.planets_by_pos[e].i = i]
      ELSE 0

\* points i and j share a longitude nobody else is within 2 * 3.4 degrees of:
\* the pair is a group of two with room on both sides
CoincidentPairWithRoom(i, j) ==
    /\ i # j
    /\ points_deg_ut[i] = points_deg_ut[j]
    /\ \A k \in PointIds \ {i, j} :
          degreeDiff(points_deg_ut[k], points_deg_ut[i]) > 2 * planet_drange

\* C3: two coincident points that make a group of two with room around it get
\* nonzero deltas of opposite sign.
C3_CoincidentPairSeparated ==
    HasRun("planets") /\ err = "none" =>
        \A i, j \in PointIds :
            CoincidentPairWithRoom(i, j) => DeltaOf(i) * DeltaOf(j) < 0

\* C4: the lunar-phase angle is rejected exactly when it is outside [0, 360);
\* inside, it falls in the one bracket of 90 degrees that holds it.
C4_LunarRange ==
    HasRun("lunar") =>
        /\ (err = "LunarPhaseError") <=> ~(0 <= lunar_deg /\ lunar_deg < FullCircle)
        /\ (0 <= lunar_deg /\ lunar_deg < FullCircle) =>
              lunar_bracket = (lunar_deg \div 9000) + 1

\* C5 as first stated: Natal and ExternalNatal get one tuple, Transit and
\* Synastry get one tuple, and the two tuples differ.
C5_ScalePerFamily ==
    HasRun("dict") =>
        /\ NatalFamily =>
              scale = ScaleConstants("Natal") /\ scale = ScaleConstants("ExternalNatal")
        /\ ~NatalFamily =>
              scale = ScaleConstants("Transit") /\ scale = ScaleConstants("Synastry")
        /\ ScaleConstants("Natal") # ScaleConstants("Transit")

\* C5: ExternalNatal gets (1, 0.9, 0.6, 0.52); Natal, Transit and Synastry all
\* get (1.2, 0.85, 0.52, 0).
C5_ScaleExternalNatalOnly ==
    HasRun("dict") =>
        /\ chart_type = "ExternalNatal" => scale = <<100, 90, 60, 52>>
        /\ chart_type \in {"Natal", "Transit", "Synastry"} => scale = <<120, 85, 52, 0>>

C5_Witness ==
    /\ chart_type = "Natal"
    /\ scale = <<120, 85, 52, 0>>
    /\ pc = "done"

\* C6: every chart type gets exactly 12 zodiac wedges, wedge i from slice i
\* to slice i + 1 (30 degrees), and exactly 12 primary house lines; Transit
\* and Synastry add 12 secondary lines and nothing else.
C6_TwelveWedges ==
    /\ HasRun("zodiac") =>
          /\ Len(makeZodiac) = 12
          /\ \A i \in 1 .. 12 :
                /\ makeZodiac[i].num = i - 1
                /\ makeZodiac[i].from = (FullCircle - houses_degree_ut[6]) + 3000 * (i - 1)
                /\ makeZodiac[i].to = makeZodiac[i].from + 3000
    /\ HasRun("houses") =>
          /\ Len(makeHouses.primary) = 12
          /\ \A i \in 1 .. 12 : makeHouses.primary[i].cusp = i - 1
          /\ chart_type \in {"Transit", "Synastry"} => Len(makeHouses.secondary) = 12
          /\ chart_type \in {"Natal", "ExternalNatal"} => Len(makeHouses.secondary) = 0

C6_Witness ==
    /\ chart_type = "Synastry"
    /\ pc = "planets"
    /\ Len(makeZodiac) = 12
    /\ Len(makeHouses.primary) = 12
    /\ Len(makeHouses.secondary) = 12

\* C7: _make_planets leaves points_deg_ut, t_points_deg_ut and the house
\* cusps as they were.
C7_LongitudesUntouched ==
    [][pc = "planets" =>
          UNCHANGED <<points_deg_ut, t_points_deg_ut, houses_degree_ut,
                      t_houses_degree_ut>>]_vars

C7_Witness ==
    /\ chart_type = "Synastry"
    /\ pc = "done"
    /\ \E e \in PointIds : natal.planets_delta[e] # 0
    /\ \E i \in DOMAIN transit.group_offset : transit.group_offset[i] # 0

\* C8: a pair of points that are not excluded is in a class's map if and only
\* if degree - orb <= degreeDiff <= degree + orb.
C8_InclusiveOrb ==
    HasRun("aspects") /\ NatalFamily =>
        \A c \in AspectClasses :
            \A i, j \in {x \in PointIds : ~Excluded(Name(x))} :
                (j \in adjacency[c][i])
                  <=> LET a == aspects_settings[AspectIds[c]]
                          d == degreeDiff(points_deg_ut[i], points_deg_ut[j])
                      IN  a.degree - a.orb <= d /\ d <= a.degree + a.orb

C8_Witness ==
    /\ HasRun("aspects")
    /\ \E i, j, k \in PointIds :
          /\ degreeDiff(points_deg_ut[i], points_deg_ut[j]) = 800
          /\ j \in adjacency.conj[i]
          /\ degreeDiff(points_deg_ut[i], points_deg_ut[k]) = 802
          /\ k \notin adjacency.conj[i]
    /\ \E i, j \in PointIds :
          /\ degreeDiff(points_deg_ut[i], points_deg_ut[j]) = 18000 - 800
          /\ j \in adjacency.opp[i]

\* C9: one T-Square entry per apex c and opposition {a, b} with c square to
\* both, keyed (c, min(a,b), max(a,b)); no other entries.
C9_TSquareOnce ==
    HasRun("aspects") /\ NatalFamily =>
        /\ \A key \in patterns.tsquare :
              /\ Len(key) = 3
              /\ key[2] <= key[3]
              /\ key[3] \in adjacency.opp[key[2]]
              /\ key[2] \in adjacency.sq[key[1]]
              /\ key[3] \in adjacency.sq[key[1]]
        /\ \A c, a, b \in PointIds :
              (b \in adjacency.opp[a] /\ a \in adjacency.sq[c] /\ b \in adjacency.sq[c]) =>
                  /\ (IF a < b THEN <<c, a, b>> ELSE <<c, b, a>>) \in patterns.tsquare
                  /\ Cardinality({key \in patterns.tsquare :
                                     key[1] = c /\ {key[2], key[3]} = {a, b}}) = 1

C9_Witness ==
    /\ HasRun("aspects")
    /\ \E key \in patterns.tsquare :
          /\ points_deg_ut[key[1]] = 9000
          /\ key[1] < key[2]
          /\ points_deg_ut[key[2]] = 18000
          /\ points_deg_ut[key[3]] = 0

\* C10: four points chained by conjunctions make exactly one Stellium entry,
\* keyed by their indices in ascending order: every key is strictly
\* ascending, so no two keys have the same members, and every chain has a key.
C10_StelliumOnce ==
    HasRun("aspects") /\ NatalFamily =>
        /\ \A key \in patterns.stellium :
              key[1] < key[2] /\ key[2] < key[3] /\ key[3] < key[4]
        /\ \A a \in PointIds :
              \A b \in adjacency.conj[a] \ {a} :
                 \A c \in adjacency.conj[b] \ {a, b} :
                    \A d \in adjacency.conj[c] \ {a, b, c} :
                       \E key \in patterns.stellium :
                          {key[1], key[2], key[3], key[4]} = {a, b, c, d}

C10_Witness ==
    /\ HasRun("aspects")
    /\ points_deg_ut[0] = 1600
    /\ points_deg_ut[1] = 0
    /\ points_deg_ut[2] = 2400
    /\ points_deg_ut[3] = 800
    /\ patterns.stellium = {<<0, 1, 2, 3>>}

\* C11: whatever patterns were found, the makePatterns entry of the template
\* dictionary is the empty string, for all four chart types.
C11_PatternsDiscarded ==
    HasRun("aspects") => makePatterns = EmptyString

C11_Witness ==
    /\ HasRun("aspects")
    /\ NatalFamily
    /\ patterns.stellium # {}
    /\ makePatterns = EmptyString

\* C14: a chart built without a chart_type argument is a Natal chart.
C14_DefaultIsNatal ==
    HasRun("new") /\ chart_type_arg = Omitted => chart_type = "Natal"

\* C12: _dec2deg raises KerykeionException exactly when the format selector
\* is none of "1", "2", "3"; for those three it returns a string.
C12_InvalidFormatSelector ==
    call.fn = "_dec2deg" /\ ret.kind # "none" =>
        LET type == call.args[2]
            recognized == type \in {PyStr("1"), PyStr("2"), PyStr("3")}
        IN  /\ ret.kind = "KerykeionException" <=> ~recognized
            /\ recognized => ret.kind = "str"

C12_Witness ==
    /\ call.fn = "_dec2deg"
    /\ call.args[2] = PyStr("2")
    /\ call.args[1] = 1050
    /\ ret = [kind |-> "str", value |-> <<10, 30>>]

\* C13: degreeDiff is the minimal unsigned angular distance of two longitudes
\* in [0, 360): symmetric, 0 for equal arguments, within [0, 180], and right
\* across the 360/0 boundary.
C13_DegreeDiff ==
    call.fn = "degreeDiff" /\ ret.kind # "none" =>
        LET a == call.args[1]
            b == call.args[2]
            d == ret.value[1]
            abs == IF a > b THEN a - b ELSE b - a
            min == IF abs < FullCircle - abs THEN abs ELSE FullCircle - abs
        IN  /\ d = min
            /\ d = degreeDiff(b, a)
            /\ a = b => d = 0
            /\ d >= 0 /\ d <= 18000
            /\ (a = 35000 /\ b = 1000) => d = 2000

C13_Witness ==
    /\ call = [fn |-> "degreeDiff", args |-> <<35000, 1000>>]
    /\ ret = [kind |-> "float", value |-> <<2000>>]

\* the positions (in longitude order) of the members of a natal group
Members(g) == {g[f].e : f \in 1 .. Len(g)}

\* C15: after the scan every group has at least 2 members, and any two
\* cyclically consecutive points closer than D (the last and the first
\* included) are in one group.
C15_CyclicMaximalGroups ==
    HasRun("planets") =>
        /\ \A a \in 1 .. Len(natal.groups) : Len(natal.groups[a]) >= 2
        /\ \A e \in 0 .. (natal.n - 1) :
              natal.planets_by_pos[e].diffb < planet_drange =>
                  \E a \in 1 .. Len(natal.groups) :
                      {e, (e + 1) % natal.n} \subseteq Members(natal.groups[a])

\* the transit points at positions e and e + 1 follow each other in a group
TransitPaired(e) ==
    \E a \in 1 .. Len(transit.groups) :
        \E f \in 1 .. (Len(transit.groups[a]) - 1) :
            /\ transit.groups[a][f] = transit.t_planets_degut[transit.t_keys[e]]
            /\ transit.groups[a][f + 1] = transit.t_planets_degut[transit.t_keys[e + 1]]

\* C16: consecutive points are clustered exactly when their gap is strictly
\* below the threshold, 3.4 for the natal points and 2.5 in the transit ring.
C16_StrictCloseness ==
    HasRun("planets") =>
        /\ \A e \in 0 .. (natal.n - 2) :
              (\E a \in 1 .. Len(natal.groups) :
                    {e, e + 1} \subseteq Members(natal.groups[a]))
                <=> natal.planets_by_pos[e].diffb < planet_drange
        /\ \A e \in 0 .. (transit.n - 2) :
              TransitPaired(e)
                <=> degreeDiff(transit.t_keys[e], transit.t_keys[e + 1]) < t_drange

\* the natal groups of exactly two members
TwoGroups == {a \in 1 .. Len(natal.groups) : Len(natal.groups[a]) = 2}

\* the entry of planets_by_pos just before / just after the two-member group a
BeforeGroup(a) ==
    natal.planets_by_pos[(natal.groups[a][1].e + natal.n - 1) % natal.n]

AfterGroup(a) ==
    natal.planets_by_pos[(natal.groups[a][2].e + 1) % natal.n]

\* the delta the build left at position e
DeltaAt(e) == natal.planets_delta[e]

\* C17: for a 2-member group, (i) room on both sides splits the pair by
\* -(D - inner)/2 and +(D - inner)/2; (ii) room only before it gives the first
\* member -D and leaves the second at 0; (iii) room only after it gives the
\* second member +D and leaves the first at 0; with none of the six rules
\* applying both members stay at 0.
C17_TwoGroupPriority ==
    HasRun("planets") =>
        \A a \in TwoGroups :
            LET g == natal.groups[a]
                D == planet_drange
                back == g[1].diffa > 2 * D
                fwd == g[2].diffb > 2 * D
                inner == g[1].diffb
                d1 == DeltaAt(g[1].e)
                d2 == DeltaAt(g[2].e)
                cascade == \/ /\ 10 * BeforeGroup(a).diffa > 24 * D
                              /\ 10 * AfterGroup(a).diffb > 24 * D
                           \/ BeforeGroup(a).diffa > 2 * D
                           \/ AfterGroup(a).diffb > 2 * D
            IN  /\ back /\ fwd => d1 = -((D - inner) \div 2) /\ d2 = (D - inner) \div 2
                /\ back /\ ~fwd => d1 = -D /\ d2 = 0
                /\ ~back /\ fwd => d1 = 0 /\ d2 = D
                /\ ~back /\ ~fwd /\ ~cascade => d1 = 0 /\ d2 = 0

C17_Witness ==
    /\ HasRun("planets")
    /\ \E a \in TwoGroups :
          /\ natal.groups[a][1].diffa > 2 * planet_drange
          /\ natal.groups[a][2].diffb = 2 * planet_drange
          /\ DeltaAt(natal.groups[a][1].e) = -planet_drange
          /\ DeltaAt(natal.groups[a][2].e) = 0

\* the positions just before / just after the two-member group a
PosBefore(a) == (natal.groups[a][1].e + natal.n - 1) % natal.n

PosAfter(a) == (natal.groups[a][2].e + 1) % natal.n

\* the displayed longitude of the point at position e: its own plus its delta
Displayed(e) == natal.keys[e] + DeltaAt(e)

\* C18: when rules (i)-(iii) do not apply and the points just before and just
\* after a 2-member group both have an outward gap above 2.4 D, each of them
\* is moved away from the group by 2 D minus its gap to the group, the members
\* get -0.5 D and +0.5 D, and each adjacent point is then displayed 1.5 D from
\* the nearest member.
C18_TwoSidedCascade ==
    HasRun("planets") =>
        \A a \in TwoGroups :
            LET g == natal.groups[a]
                D == planet_drange
            IN  (/\ g[1].diffa <= 2 * D
                 /\ g[2].diffb <= 2 * D
                 /\ 10 * BeforeGroup(a).diffa > 24 * D
                 /\ 10 * AfterGroup(a).diffb > 24 * D) =>
                    /\ DeltaAt(PosBefore(a)) = -(2 * D - g[1].diffa)
                    /\ DeltaAt(PosAfter(a)) = 2 * D - g[2].diffb
                    /\ DeltaAt(g[1].e) = -(D \div 2)
                    /\ DeltaAt(g[2].e) = D \div 2
                    /\ degreeDiff(Norm(Displayed(PosBefore(a))),
                                  Norm(Displayed(g[1].e))) = (15 * D) \div 10
                    /\ degreeDiff(Norm(Displayed(PosAfter(a))),
                                  Norm(Displayed(g[2].e))) = (15 * D) \div 10

\* rules (i)-(iv) do not apply to the two-member group a
NoRoomNoTwoSided(a) ==
    LET g == natal.groups[a]
    IN  /\ g[1].diffa <= 2 * planet_drange
        /\ g[2].diffb <= 2 * planet_drange
        /\ ~(/\ 10 * BeforeGroup(a).diffa > 24 * planet_drange
              /\ 10 * AfterGroup(a).diffb > 24 * planet_drange)

\* the one-sided cascades of group a as they would fire with a qualification
\* threshold of t10 / 10 times D: the left one (first member -1.2 D) when the
\* point before the group qualifies, else the right one (second member
\* +1.2 D) when the point after it qualifies, else none
OneSidedWith(a, t10) ==
    LET g == natal.groups[a]
        D == planet_drange
        lq == 10 * BeforeGroup(a).diffa > t10 * D
        rq == 10 * AfterGroup(a).diffb > t10 * D
        d1 == DeltaAt(g[1].e)
        d2 == DeltaAt(g[2].e)
    IN  /\ lq => d1 = -((12 * D) \div 10) /\ d2 = 0
        /\ ~lq /\ rq => d1 = 0 /\ d2 = (12 * D) \div 10
        /\ ~lq /\ ~rq => d1 = 0 /\ d2 = 0

\* C19 as stated: when rules (i)-(iv) do not apply, the left cascade fires,
\* else the right one, the adjacent point qualifying when its outward gap is
\* above the threshold the text names, 1.2 D or 2.5 D.
C19_OneSidedThresholds ==
    HasRun("planets") =>
        \A a \in TwoGroups :
            NoRoomNoTwoSided(a) => OneSidedWith(a, 12) \/ OneSidedWith(a, 25)

\* C19 amended: the adjacent point qualifies when its outward gap is above
\* 2 D; 1.2 D is the shift of the group member.
C19_OneSidedAtTwoD ==
    HasRun("planets") =>
        \A a \in TwoGroups : NoRoomNoTwoSided(a) => OneSidedWith(a, 20)

C19_Witness ==
    /\ HasRun("planets")
    /\ \E a \in TwoGroups :
          /\ NoRoomNoTwoSided(a)
          /\ BeforeGroup(a).diffa = 2 * planet_drange
          /\ AfterGroup(a).diffb = 800
          /\ DeltaAt(natal.groups[a][1].e) = 0
          /\ DeltaAt(natal.groups[a][2].e) = (12 * planet_drange) \div 10

\* the natal groups of three members or more
ManyGroups == {a \in 1 .. Len(natal.groups) : Len(natal.groups[a]) >= 3}

\* the two outward gaps of group a plus the span of its members
AvailableOf(a) ==
    LET g == natal.groups[a]
        first == g[1].e
        last == g[Len(g)].e
    IN  degreeDiff(natal.keys[(first + natal.n - 1) % natal.n], natal.keys[first])
          + (natal.keys[last] - natal.keys[first])
          + degreeDiff(natal.keys[(last + 1) % natal.n], natal.keys[last])

\* 3 D + 1.2 D (n - 1)
NeedOf(a) ==
    3 * planet_drange + (12 * planet_drange * (Len(natal.groups[a]) - 1)) \div 10

\* C20: a group of 3 or more members gets a nonzero delta exactly when
\* available > need; with available <= need every member stays at 0.
C20_ManyGroupAdjusted ==
    HasRun("planets") =>
        \A a \in ManyGroups :
            AvailableOf(a) > NeedOf(a)
              <=> \E f \in 1 .. Len(natal.groups[a]) :
                     DeltaAt(natal.groups[a][f].e) # 0

C20_Witness ==
    /\ HasRun("planets")
    /\ \E a \in ManyGroups :
          /\ AvailableOf(a) = NeedOf(a)
          /\ Len(natal.groups[a]) = 3
          /\ \A f \in 1 .. Len(natal.groups[a]) : DeltaAt(natal.groups[a][f].e) = 0

\* C21: in an adjusted group of 3 or more, each member is displayed exactly
\* 1.2 D after the one before it.
C21_GroupSteps ==
    HasRun("planets") =>
        \A a \in ManyGroups :
            AvailableOf(a) > NeedOf(a) =>
                \A f \in 1 .. (Len(natal.groups[a]) - 1) :
                    Displayed(natal.groups[a][f + 1].e) - Displayed(natal.groups[a][f].e)
                        = (12 * planet_drange) \div 10

C21_Witness ==
    /\ HasRun("planets")
    /\ \E a \in ManyGroups :
          /\ Len(natal.groups[a]) = 3
          /\ AvailableOf(a) > NeedOf(a)
          /\ natal.keys[natal.groups[a][2].e] - natal.keys[natal.groups[a][1].e] = 200
          /\ Displayed(natal.groups[a][3].e) - Displayed(natal.groups[a][1].e)
                = 2 * ((12 * planet_drange) \div 10)

\* the transit points that stand in some group of 2, 3 or 4
InSizedGroup(i) ==
    \E a \in 1 .. Len(transit.groups) :
        /\ Len(transit.groups[a]) \in 2 .. 4
        /\ \E f \in 1 .. Len(transit.groups[a]) : transit.groups[a][f] = i

\* the offsets of the members of transit group a, in the group's order
OffsetsOf(a) ==
    [f \in 1 .. Len(transit.groups[a]) |-> transit.group_offset[transit.groups[a][f]]]

\* C22: a transit cluster of 2 has offsets (-1, +1), of 3 (-1.5, 0, +1.5), of
\* 4 (-2, -1, +1, +2); every other point has offset 0.
C22_OffsetsBySize ==
    (HasRun("planets") /\ IsTransitFamily(chart_type)) =>
        /\ \A a \in 1 .. Len(transit.groups) :
              /\ Len(transit.groups[a]) = 2 => OffsetsOf(a) = <<-100, 100>>
              /\ Len(transit.groups[a]) = 3 => OffsetsOf(a) = <<-150, 0, 150>>
              /\ Len(transit.groups[a]) = 4 => OffsetsOf(a) = <<-200, -100, 100, 200>>
        /\ \A i \in DOMAIN transit.group_offset :
              ~InSizedGroup(i) => transit.group_offset[i] = 0

\* C23: the four members k, n, p, r of every Stellium entry the scan makes are
\* distinct and each is in conjunction with the next one.
C23_StelliumIsChain ==
    HasRun("aspects") =>
        \A k \in PointIds : \A l \in adjacency.conj[k] :
          \A n \in adjacency.conj[l] \ {k} :
            \A p \in adjacency.conj[n] \ {k, n} :
              \A r \in adjacency.conj[p] \ {k, n, p} :
                /\ Cardinality({k, n, p, r}) = 4
                /\ n \in adjacency.conj[k]
                /\ p \in adjacency.conj[n]
                /\ r \in adjacency.conj[p]

\* the triples (k, l, m): l and m quincunx partners of k, k with at least two
\* such partners, l and m sextile to each other
YodTriples ==
    {t \in PointIds \X PointIds \X PointIds :
        /\ Cardinality(adjacency.qc[t[1]]) >= 2
        /\ t[2] \in adjacency.qc[t[1]]
        /\ t[3] \in adjacency.qc[t[1]]
        /\ t[3] \in adjacency.sext[t[2]]
        /\ t[2] \in adjacency.sext[t[3]]}

\* C24: the Yod set is exactly the set of (k, min(l, m), max(l, m)) over the
\* apexes k and their mutually sextile quincunx partners l and m.
C24_YodSet ==
    (HasRun("aspects") /\ NatalFamily) =>
        patterns.yot =
            {<<t[1], IF t[2] < t[3] THEN t[2] ELSE t[3],
                     IF t[2] < t[3] THEN t[3] ELSE t[2]>> : t \in YodTriples}

C24_Witness ==
    /\ HasRun("aspects")
    /\ NatalFamily
    /\ \E key \in patterns.yot :
          /\ key[2] < key[3]
          /\ \E x \in adjacency.qc[key[1]] :
                /\ x \notin {key[2], key[3]}
                /\ x \notin adjacency.sext[key[2]]
                /\ <<key[1], key[2], x>> \notin patterns.yot
                /\ <<key[1], x, key[2]>> \notin patterns.yot

\* the points whose name is one of the seven excluded names
ExcludedIds ==
    {i \in PointIds :
        Name(i) \in {"earth", "True_Node", "osc. apogee", "intp. apogee",
                     "intp. perigee", "Dsc", "Ic"}}

\* the members of the entries of every pattern
PatternMembers ==
    UNION {{key[f] : f \in DOMAIN key} :
             key \in patterns.yot \cup patterns.tsquare \cup patterns.stellium}

\* C25: a point with an excluded name has an empty map in every aspect class,
\* is in no other point's map and in no pattern, while every aspect it forms
\* still has its line among the aspect lines.
C25_ExcludedFromAdjacency ==
    (HasRun("aspects") /\ NatalFamily) =>
        \A i \in ExcludedIds :
            /\ \A c \in AspectClasses :
                  /\ adjacency[c][i] = {}
                  /\ \A j \in PointIds : i \notin adjacency[c][j]
            /\ i \notin PatternMembers
            /\ \A j \in PointIds \ {i} :
                  (\E c \in AspectClasses :
                      InBand(aspects_settings, AspectIds[c],
                             degreeDiff(points_deg_ut[i], points_deg_ut[j])))
                  => \E ln \in makeAspects :
                        {ln.degA, ln.degB} = {points_deg_ut[i], points_deg_ut[j]}

C25_Witness ==
    /\ HasRun("aspects")
    /\ NatalFamily
    /\ patterns.stellium # {}
    /\ \E i \in ExcludedIds :
          /\ \A j \in PointIds \ {i} : points_deg_ut[j] # points_deg_ut[i]
          /\ \E j \in PatternMembers :
                /\ degreeDiff(points_deg_ut[i], points_deg_ut[j]) = 800
                /\ \E ln \in makeAspects :
                      {ln.degA, ln.degB} = {points_deg_ut[i], points_deg_ut[j]}

\* the angle (360 - cusp[6]) + t, less 360 when it exceeds 360
Projected(t) ==
    IF FullCircle - houses_degree_ut[6] + t > FullCircle
      THEN FullCircle - houses_degree_ut[6] + t - FullCircle
      ELSE FullCircle - houses_degree_ut[6] + t

\* C26: in a Transit or Synastry chart every cusp and point of the second
\* subject is drawn at (360 - cusp[6]) + t reduced by 360 when above 360, an
\* angle in [0, 360), and a point of the second subject is drawn at the same
\* angle as a point of the primary subject with the same longitude.
C26_SharedFrame ==
    (HasRun("planets") /\ IsTransitFamily(chart_type) /\ pc # "raised") =>
        /\ \A c \in DOMAIN makeHouses.secondary :
              /\ makeHouses.secondary[c].t_offset
                    = Projected(t_houses_degree_ut[makeHouses.secondary[c].cusp])
              /\ makeHouses.secondary[c].t_offset >= 0
              /\ makeHouses.secondary[c].t_offset < FullCircle
        /\ \A f \in DOMAIN makePlanets.t_glyphs :
              /\ makePlanets.t_glyphs[f].t_offset
                    = Projected(t_points_deg_ut[makePlanets.t_glyphs[f].i])
              /\ makePlanets.t_glyphs[f].t_offset >= 0
              /\ makePlanets.t_glyphs[f].t_offset < FullCircle
              /\ \A e \in DOMAIN makePlanets.glyphs :
                    points_deg_ut[makePlanets.glyphs[e].i]
                        = t_points_deg_ut[makePlanets.t_glyphs[f].i]
                    => Norm(makePlanets.glyphs[e].trueoffset)
                         = Norm(makePlanets.t_glyphs[f].t_offset)

\* the active points stand at pairwise distinct longitudes
DistinctLongitudes ==
    \A i, j \in PointIds : i # j => points_deg_ut[i] # points_deg_ut[j]

\* the displayed gap from the point at position e to the next one in longitude
\* order, the first one after the last
DisplayedGap(e) ==
    Norm(natal.keys[(e + 1) % natal.n] - natal.keys[e])
        + DeltaAt((e + 1) % natal.n) - DeltaAt(e)

\* C27: with distinct longitudes every point is displayed strictly before the
\* point that follows it in longitude order, across 360/0 too.
C27_CyclicOrder ==
    (HasRun("planets") /\ pc # "raised" /\ DistinctLongitudes) =>
        \A e \in 0 .. (natal.n - 1) : DisplayedGap(e) > 0

\* the transit points listed in transit group a
TransitMembers(a) ==
    {transit.groups[a][f] : f \in 1 .. Len(transit.groups[a])}

\* C28: no transit cluster lists a point twice and no point is in two
\* clusters.
C28_DisjointClusters ==
    (HasRun("planets") /\ IsTransitFamily(chart_type)) =>
        /\ \A a \in 1 .. Len(transit.groups) :
              Cardinality(TransitMembers(a)) = Len(transit.groups[a])
        /\ \A a, b \in 1 .. Len(transit.groups) :
              a # b => TransitMembers(a) \cap TransitMembers(b) = {}

\* the slots of planets_delta that the rule of group a moves next to the group
CascadedBy(a) ==
    LET g == natal.groups[a]
        rule == IF Len(g) = 2
                  THEN TwoGroupRule(natal.planets_by_pos, natal.n, g)
                  ELSE 0
    IN  CASE rule = 4 -> {PyIndex(NextToA(g), NPoints), NextToB(g, natal.n)}
          [] rule = 5 -> {PyIndex(NextToA(g), NPoints)}
          [] rule = 6 -> {NextToB(g, natal.n)}
          [] OTHER -> {}

\* the slots of planets_delta that group a writes
WrittenBy(a) ==
    LET g == natal.groups[a]
        rule == IF Len(g) = 2
                  THEN TwoGroupRule(natal.planets_by_pos, natal.n, g)
                  ELSE 0
    IN  CascadedBy(a) \cup
        (CASE rule \in {1, 4} -> {g[1].e, g[2].e}
           [] rule \in {2, 5} -> {g[1].e}
           [] rule \in {3, 6} -> {g[2].e}
           [] Len(g) >= 3 /\ Available(g) > Need(Len(g)) -> Members(g)
           [] OTHER -> {})

RECURSIVE ReverseGroups(_)
ReverseGroups(gs) ==
    IF gs = <<>> THEN <<>> ELSE Append(ReverseGroups(Tail(gs)), Head(gs))

\* C29: no slot of planets_delta is written by two groups, a cascade moves no
\* member of another group of 2 or more, and processing the groups in the
\* reverse order gives the same deltas.
C29_OneWriter ==
    (HasRun("planets") /\ pc # "raised") =>
        /\ \A a, b \in 1 .. Len(natal.groups) :
              a # b =>
                /\ WrittenBy(a) \cap WrittenBy(b) = {}
                /\ Len(natal.groups[b]) >= 2 => CascadedBy(a) \cap Members(natal.groups[b]) = {}
        /\ natal.planets_delta
              = DeltaLoop(natal.planets_by_pos, natal.n, ReverseGroups(natal.groups),
                          1, ZeroDelta)

C29_Witness ==
    /\ HasRun("planets")
    /\ pc # "raised"
    /\ \E a, b \in 1 .. Len(natal.groups) :
          /\ a # b
          /\ WrittenBy(a) # {}
          /\ CascadedBy(b) # {}
          /\ \E s \in CascadedBy(b) :
                /\ s = NextToB(natal.groups[a], natal.n)
                /\ natal.planets_delta[s] # 0

\* what one point adds to the tally of element ele
ShareOf(i, ele) ==
    IF ZodiacElement(points_deg_ut[i] \div 3000) = ele
      THEN ElementPoints(i)
             + (IF (points_deg_ut[i] \div 3000) \in RelatedZodiacSigns(i) THEN 10 ELSE 0)
      ELSE 0

RECURSIVE TotalOf(_, _)
TotalOf(ele, S) ==
    IF S = {} THEN 0
    ELSE LET i == CHOOSE x \in S : TRUE
         IN  ShareOf(i, ele) + TotalOf(ele, S \ {i})

\* C30: after the first and after the second call of
\* _createTemplateDictionary each element tally is the total of one pass: every
\* point's element_points, plus its sign bonus, counted once.
C30_TalliesOfOnePass ==
    ((pc = "dict" /\ pass = 2) \/ pc = "done") =>
        \A ele \in {"fire", "earth", "air", "water"} :
            elements[ele] = TotalOf(ele, PointIds)

C30_Witness ==
    /\ pc = "done"
    /\ elements.water = 135
    /\ elements.fire = 0
    /\ \E i \in PointIds : (points_deg_ut[i] \div 3000) \in RelatedZodiacSigns(i)

====
